---- MODULE Spec2Model ----
(***************************************************************************)
(* sqlalchemy_serializer: the session decorator (decorators.py,            *)
(* session.py) and the serializers (serializers.py, fields.py).            *)
(*                                                                         *)
(* Part I models `sessioned`: one action per call of a wrapped function,   *)
(* with the ORM session reduced to the operations the wrapper and the      *)
(* wrapped function perform on it (construct, add, commit, close).         *)
(* Part II models serializer construction and to_dict.                     *)
(***************************************************************************)
EXTENDS Integers, Sequences, FiniteSets, TLC

VARIABLES
    sessions,       \* Session objects built so far: id -> [made, owner, closed, pending]
    call,           \* the last call of a sessioned function: its kwargs, events, outcome
    interp,         \* the interpreter running the serializers: "py2" or "py3"
    ser,            \* the serializer object (or the failed construction)
    out             \* the last to_dict call: its input, outcome, result, custom calls

vars == <<sessions, call, interp, ser, out>>

sessVars == <<sessions, call>>
serVars == <<interp, ser, out>>

(***************************************************************************)
(*                       Part I: the session decorator                     *)
(***************************************************************************)

\* Bounds of the session model.
MaxSessions == 2
MaxPending == 1

SessionIds == 1..MaxSessions

\* kwargs['session']: Absent (key not passed), NoneSession (None) or a Session id.
Absent == -1
NoneSession == 0

\* kwargs['commit'] as passed by the caller.
CommitValues == {"absent", "None", "True", "False"}

\* What the wrapped function does with the session it receives:
\* session.add(...) or not, session.commit() or not, then return or raise.
Behaviours == [adds : BOOLEAN, commits : BOOLEAN, raises : BOOLEAN]

NoSession == [made |-> FALSE, owner |-> "none", closed |-> FALSE, pending |-> 0]

\* Session(): a new session object, held by who built it.
SessionNew(ss, s, who) ==
    [ss EXCEPT ![s] = [made |-> TRUE, owner |-> who, closed |-> FALSE, pending |-> 0]]

\* session.add(obj): one more pending write.
SessionAdd(ss, s) ==
    [ss EXCEPT ![s].pending = IF @ < MaxPending THEN @ + 1 ELSE @]

\* session.commit(): the pending writes are flushed and made durable.
SessionCommit(ss, s) ==
    [ss EXCEPT ![s].pending = 0]

\* session.close(), as contextlib.closing calls it on exit: pending writes are
\* rolled back and the session's resources released.
SessionClose(ss, s) ==
    [ss EXCEPT ![s].closed = TRUE, ![s].pending = 0]

\* An event of a call: operation op on session s, issued by the wrapper or by
\* the wrapped function, with n the pending writes it found on the session
\* (the writes a commit makes durable, the writes a close rolls back).
Ev(op, s, by, ss) == [op |-> op, sid |-> s, by |-> by, n |-> ss[s].pending,
                      closed |-> ss[s].closed]

\* kwargs.get(key, None)
KwGetSession(kw) == IF kw.session = Absent THEN NoneSession ELSE kw.session
KwGetCommit(kw) == IF kw.commit = "absent" THEN "None" ELSE kw.commit

\* Python truth value of the commit argument.
Truthy(commit) == commit = "True"

\* The smallest id no Session object has yet.
FreshSession(ss) == CHOOSE s \in SessionIds :
    /\ ~ss[s].made
    /\ \A t \in SessionIds : ~ss[t].made => s <= t

\* func(*args, **kwargs): the wrapped function runs on session s.
\* st is [ss, trace]; the result adds whether it raised.
Func(st, s, beh) ==
    LET t0 == Append(st.trace, Ev("call", s, "func", st.ss))
        s1 == IF beh.adds THEN SessionAdd(st.ss, s) ELSE st.ss
        t1 == IF beh.adds THEN Append(t0, Ev("add", s, "func", st.ss)) ELSE t0
        s2 == IF beh.commits THEN SessionCommit(s1, s) ELSE s1
        t2 == IF beh.commits THEN Append(t1, Ev("commit", s, "func", s1)) ELSE t1
    IN [ss |-> s2, trace |-> t2, raised |-> beh.raises]

\* Mutant of WithNewSession: the session is closed by hand after func returns,
\* with no context manager, so a raise skips the close.
WithNewSessionNoFinally(ss, kw, beh) ==
    LET s == FreshSession(ss)
        new == SessionNew(ss, s, "wrapper")
        opened == [ss |-> new, trace |-> <<Ev("open", s, "wrapper", new)>>]
        ran == Func(opened, s, beh)
    IN [ss |-> IF ran.raised THEN ran.ss ELSE SessionClose(ran.ss, s),
        trace |-> IF ran.raised THEN ran.trace
                  ELSE Append(ran.trace, Ev("close", s, "wrapper", ran.ss)),
        raised |-> ran.raised,
        session |-> s,
        opened |-> s]

\* with session_builder_manager() as session: ... func(...) ...
\* create_session() returns closing(Session()); leaving the block closes the
\* session, on return and on raise alike.
WithNewSession(ss, kw, beh) ==
    LET s == FreshSession(ss)
        new == SessionNew(ss, s, "wrapper")
        opened == [ss |-> new, trace |-> <<Ev("open", s, "wrapper", new)>>]
        ran == Func(opened, s, beh)
    IN [ss |-> SessionClose(ran.ss, s),
        trace |-> Append(ran.trace, Ev("close", s, "wrapper", ran.ss)),
        raised |-> ran.raised,
        session |-> s,
        opened |-> s]

\* Mutant of WithGivenSession: the passed session is wrapped in closing() too.
WithGivenSessionClosing(ss, kw, beh) ==
    LET s == KwGetSession(kw)
        ran == Func([ss |-> ss, trace |-> <<>>], s, beh)
    IN [ss |-> SessionClose(ran.ss, s),
        trace |-> Append(ran.trace, Ev("close", s, "wrapper", ran.ss)),
        raised |-> ran.raised, session |-> s, opened |-> NoneSession]

\* The else branch: func runs on the session the caller passed.
WithGivenSession(ss, kw, beh) ==
    LET s == KwGetSession(kw)
        ran == Func([ss |-> ss, trace |-> <<>>], s, beh)
    IN [ss |-> ran.ss, trace |-> ran.trace, raised |-> ran.raised,
        session |-> s, opened |-> NoneSession]

\* if commit: session.commit()  (after the if/else, hence after the with block)
CommitStep(r, commit) ==
    IF Truthy(commit)
    THEN [r EXCEPT !.ss = SessionCommit(r.ss, r.session),
                   !.trace = Append(r.trace, Ev("commit", r.session, "wrapper", r.ss))]
    ELSE r

\* Mutant of RejectsCall: the commit check sits in the wrong branch.
RejectsCallWrongBranch(session, commit) == session # NoneSession /\ commit = "False"

\* if session is None: if commit is False: raise ValueError(...)
RejectsCall(session, commit) == session = NoneSession /\ commit = "False"

\* sessioned(...)(func)(*args, **kwargs): the whole wrapper.
wrapper(ss, kw, beh) ==
    LET session == KwGetSession(kw)
        commit == KwGetCommit(kw)
    IN IF RejectsCall(session, commit)
       THEN [ss |-> ss, trace |-> <<>>, session |-> NoneSession,
             opened |-> NoneSession, outcome |-> "ValueError"]
       ELSE LET r == IF session = NoneSession
                     THEN WithNewSession(ss, kw, beh)
                     ELSE WithGivenSession(ss, kw, beh)
            IN IF r.raised
               THEN [ss |-> r.ss, trace |-> r.trace, session |-> r.session,
                     opened |-> r.opened, outcome |-> "raised"]
               ELSE LET c == CommitStep(r, commit)
                    IN [ss |-> c.ss, trace |-> c.trace, session |-> c.session,
                        opened |-> c.opened, outcome |-> "returned"]

NoCall == [kw |-> [session |-> Absent, commit |-> "absent"],
           beh |-> [adds |-> FALSE, commits |-> FALSE, raises |-> FALSE],
           before |-> NoSession,
           trace |-> <<>>, session |-> NoneSession, opened |-> NoneSession,
           outcome |-> "none"]

\* The caller builds a session of its own: create_session(context_manager=False).
CallerCreateSession ==
    /\ \E s \in SessionIds : ~sessions[s].made
    /\ sessions' = SessionNew(sessions, FreshSession(sessions), "caller")
    /\ UNCHANGED call

\* One call of a sessioned function.
Call ==
    \E ks \in {Absent, NoneSession} \cup {s \in SessionIds : sessions[s].owner = "caller"},
          kc \in CommitValues, beh \in Behaviours :
        LET kw == [session |-> ks, commit |-> kc]
            opens == KwGetSession(kw) = NoneSession /\ KwGetCommit(kw) # "False"
        IN /\ opens => \E s \in SessionIds : ~sessions[s].made
           /\ LET r == wrapper(sessions, kw, beh)
              IN /\ sessions' = r.ss
                 /\ call' = [kw |-> kw, beh |-> beh,
                             before |-> IF KwGetSession(kw) = NoneSession
                                        THEN NoSession
                                        ELSE sessions[KwGetSession(kw)],
                             trace |-> r.trace, session |-> r.session,
                             opened |-> r.opened, outcome |-> r.outcome]

SessionNext ==
    \/ CallerCreateSession /\ UNCHANGED serVars
    \/ Call /\ UNCHANGED serVars

\* The session decorator alone: the serializers never run.
SessionOnlyInit ==
    /\ sessions = [s \in SessionIds |-> NoSession]
    /\ call = NoCall
    /\ interp = "py2"
    /\ ser = 0
    /\ out = 0

SessionSpec == SessionOnlyInit /\ [][SessionNext]_vars

\* The events of the last call with operation op.
EventsOf(op) == {i \in DOMAIN call.trace : call.trace[i].op = op}

\* The last call was made without a session (absent or None).
NoSessionPassed == call.outcome # "none" /\ KwGetSession(call.kw) = NoneSession

\* The last call was made with a session of the caller's.
SessionPassed == call.outcome # "none" /\ KwGetSession(call.kw) # NoneSession

(* C1: a call with commit=False and no session (absent or None) raises
   ValueError, before any session is opened and without invoking the wrapped
   function: the call has no event at all and names no session. *)
C1_CommitFalseNoSessionRaises ==
    (NoSessionPassed /\ call.kw.commit = "False") =>
        /\ call.outcome = "ValueError"
        /\ call.trace = <<>>
        /\ call.opened = NoneSession
        /\ call.session = NoneSession

C1_Witness ==
    /\ NoSessionPassed /\ call.kw.commit = "False" /\ call.kw.session = NoneSession
    /\ call.outcome = "ValueError"

(* C2: in a call where the wrapper opens the session itself, the events are in
   the order open, used by the wrapped function, committed, closed: no commit
   is issued on the session after it has been closed. *)
C2_CommitBeforeClose ==
    call.opened # NoneSession =>
        \A i \in EventsOf("commit"), j \in EventsOf("close") :
            call.trace[i].sid = call.opened /\ call.trace[j].sid = call.opened
                => i < j

(* C3: a session the wrapper opened itself has been committed by the time the
   call returns normally, whatever commit value the call was accepted with
   (the commit keyword not passed included). *)
C3_AutoOpenedIsCommitted ==
    (call.opened # NoneSession /\ call.outcome = "returned") =>
        \E i \in EventsOf("commit") : call.trace[i].sid = call.opened

(* C4: when the caller passes a session, the wrapper opens none, the wrapped
   function runs on that very session, and the wrapper does not close it,
   whether the wrapped function returns or raises. *)
C4_GivenSessionReusedNotClosed ==
    SessionPassed =>
        /\ call.opened = NoneSession
        /\ EventsOf("open") = {}
        /\ EventsOf("close") = {}
        /\ Cardinality(EventsOf("call")) = 1
        /\ \A i \in DOMAIN call.trace : call.trace[i].sid = call.kw.session
        /\ call.outcome \in {"returned", "raised"}
        /\ sessions[call.kw.session].closed = call.before.closed

C4_Witness ==
    /\ SessionPassed /\ call.outcome = "raised"
    /\ call.trace # <<>> /\ ~sessions[call.kw.session].closed

(* C5: a session the wrapper opened itself is closed on every exit path, on
   return and on raise: the call opens exactly one session, closes it after the
   wrapped function has run, and no session of the wrapper's stays open. *)
C5_AutoOpenedIsClosed ==
    /\ NoSessionPassed /\ call.outcome # "ValueError" =>
        /\ call.opened # NoneSession
        /\ Cardinality(EventsOf("open")) = 1
        /\ Cardinality(EventsOf("close")) = 1
        /\ \A i \in EventsOf("open"), j \in EventsOf("call"), k \in EventsOf("close") :
              /\ i < j /\ j < k
              /\ call.trace[i].sid = call.opened
              /\ call.trace[j].sid = call.opened
              /\ call.trace[k].sid = call.opened
        /\ sessions[call.opened].closed
    /\ \A s \in SessionIds : sessions[s].owner = "wrapper" => sessions[s].closed

C5_Witness ==
    /\ NoSessionPassed /\ call.outcome = "raised"
    /\ call.opened # NoneSession /\ sessions[call.opened].closed

(***************************************************************************)
(*                         Part II: the serializers                        *)
(***************************************************************************)

\* Bound of the serializer model: the number of query fields a class declares
\* plus the extra fields given to the constructor.
MaxFields == 2

\* field.key of the query fields: labelled columns and expressions, and NoKey
\* for an expression without a label.
NoKey == ""
QueryKeys == {"gold", "level"}
FieldKeys == QueryKeys \cup {NoKey}

\* The model class of the model serializers (Guild, two of its columns kept):
\* get_columns(model) in column order, get_hybrid_properties(model).
Columns == <<"gold", "level">>
Hybrids == <<"is_rich">>
ModelAttrs == {"gold", "level", "is_rich"}

\* Rows of query results. Values are sequences of tokens.
Rows == {"a", "b"}
Digits == <<"1", "2", "3", "4", "5">>

\* raw[i] of the row's tuple (0-based in the code, 1-based here).
TupleItem(row, i) == <<row, Digits[i]>>
\* getattr(raw, key) of the row's model instance.
InstanceAttr(row, key) == <<row, key>>

\* Transform functions: SerializeField._zero_serialize, a serialize_<key>
\* method of the serializer class, a func given to SerializeField(...), the
\* function of a custom field.
ZeroSerialize == [f |-> "zero", k |-> ""]
SerializeMethod(key) == [f |-> "serialize", k |-> key]
UserFunc(name) == [f |-> "user", k |-> name]
CustomFunc(name) == [f |-> "custom", k |-> name]

\* func(value): _zero_serialize returns the value, any other function a
\* value of its own that depends on its argument.
Apply(func, value) ==
    IF func.f = "zero" THEN value ELSE <<func.f, func.k>> \o value

\* SerializeField(key, func=None): self.func = func or self._zero_serialize
SerializeField(key, func) == [kind |-> "plain", key |-> key, func |-> func]
\* SerializeCustomModelField(func, key)
SerializeCustomModelField(func, key) == [kind |-> "custom", key |-> key, func |-> func]

NoField == [kind |-> "none", key |-> "", func |-> ZeroSerialize]

\* ---- mappings (dict) ----
EmptyDict == [k \in {} |-> <<>>]
\* result[key] = value
DictPut(d, key, value) ==
    [k \in DOMAIN d \cup {key} |-> IF k = key THEN value ELSE d[k]]

\* A fixed order of every key a mapping can hold, to flatten mappings with.
KeyOrder == <<"gold", "level", "is_rich", "amount", "gold_and_level", "total", "k">>

RECURSIVE FlatFrom(_, _)
FlatFrom(d, i) ==
    IF i > Len(KeyOrder) THEN <<>>
    ELSE (IF KeyOrder[i] \in DOMAIN d
          THEN <<KeyOrder[i]>> \o d[KeyOrder[i]] \o <<";">>
          ELSE <<>>) \o FlatFrom(d, i + 1)

\* The mapping as a value: what a function reading the mapping can depend on.
Flat(d) == <<"{">> \o FlatFrom(d, 1) \o <<"}">>

RECURSIVE FlatArgs(_)
FlatArgs(args) == IF args = <<>> THEN <<>> ELSE Head(args) \o FlatArgs(Tail(args))

\* field.func(instance, *args, **kwargs) of a custom field: the function's
\* result depends on everything it is called with.
ApplyCustom(func, instance, args, kwargs) ==
    <<func.f, func.k>> \o Flat(instance) \o <<"*">> \o FlatArgs(args)
        \o <<"**">> \o Flat(kwargs)

\* ---- serializer classes ----
\* The class attribute named after a query key that the model covers.
AttrName == "gold"
\* none; gold = SerializeField('gold', func=upper); gold = SerializeField('amount')
AttrOptions ==
    {NoField, SerializeField("gold", UserFunc("upper")), SerializeField("amount", ZeroSerialize)}

\* The sets of keys k whose serialize_<k> method a class may define.
MethodOptions == {{}, {"gold"}, {"amount"}}

\* The custom fields a class may declare, in the order of __class__.__dict__:
\* gold_and_level, stored under its own key or over the plain key level, and
\* total.
GoldAndLevel(key) == SerializeCustomModelField(CustomFunc("gold_and_level"), key)
Total == SerializeCustomModelField(CustomFunc("total"), "total")
CustomOptions ==
    {<<>>, <<GoldAndLevel("gold_and_level")>>, <<GoldAndLevel("level")>>,
     <<GoldAndLevel("level"), Total>>, <<Total, GoldAndLevel("gold_and_level")>>}

RECURSIVE SeqsUpTo(_, _)
\* The sequences over S of length at most n.
SeqsUpTo(S, n) ==
    IF n = 0 THEN {<<>>}
    ELSE LET shorter == SeqsUpTo(S, n - 1)
         IN shorter \cup {Append(q, x) : q \in shorter, x \in S}

\* Subclasses of SQLAlchemySerializator.
BaseClasses ==
    [kind : {"base"},
     fields : SeqsUpTo(FieldKeys, MaxFields),
     methods : MethodOptions,
     attr : AttrOptions,
     customs : CustomOptions,
     model : {FALSE},
     to_inspect_fields : {TRUE},
     to_inspect_hybrid_fields : {TRUE}]

\* Subclasses of SQLAlchemyModelSerializator, each with a serialize_gold method.
ModelClasses ==
    [kind : {"model"},
     fields : SeqsUpTo(QueryKeys, MaxFields - 1),
     methods : {{"gold"}},
     attr : {NoField},
     customs : {<<>>, <<GoldAndLevel("gold_and_level")>>},
     model : BOOLEAN,
     to_inspect_fields : BOOLEAN,
     to_inspect_hybrid_fields : BOOLEAN]

NoClass ==
    [kind |-> "none", fields |-> <<>>, methods |-> {}, attr |-> NoField,
     customs |-> <<>>, model |-> FALSE, to_inspect_fields |-> TRUE,
     to_inspect_hybrid_fields |-> TRUE]

\* Constructor keyword arguments of the model serializer; "None" = not passed.
FlagValues == {"None", "True", "False"}

QueryField(key, origin) == [key |-> key, origin |-> origin]

QFields(keys, origin) == [i \in 1..Len(keys) |-> QueryField(keys[i], origin)]

\* SQLAlchemySerializator._init_query_fields
init_query_fields(cls, extra_fields) ==
    QFields(cls.fields, "class") \o QFields(extra_fields, "extra")

\* Mutant of model_init_query_fields: the model is introspected whether or not
\* fields were given (the "if not self.query_fields" test is lost).
model_init_query_fields_always(cls, extra_fields, to_inspect_fields, to_inspect_hybrid_fields) ==
    init_query_fields(cls, extra_fields)
        \o (IF to_inspect_fields THEN QFields(Columns, "column") ELSE <<>>)
        \o (IF to_inspect_hybrid_fields THEN QFields(Hybrids, "hybrid") ELSE <<>>)

\* SQLAlchemyModelSerializator._init_query_fields
model_init_query_fields(cls, extra_fields, to_inspect_fields, to_inspect_hybrid_fields) ==
    LET query_fields == init_query_fields(cls, extra_fields)
    IN IF query_fields # <<>> THEN query_fields
       ELSE (IF to_inspect_fields THEN QFields(Columns, "column") ELSE <<>>)
            \o (IF to_inspect_hybrid_fields THEN QFields(Hybrids, "hybrid") ELSE <<>>)

\* getattr(self, key, None)
GetAttr(cls, key) == IF key = AttrName THEN cls.attr ELSE NoField

\* getattr(self, "serialize_{}".format(key), None)
GetSerializeFunc(cls, key) ==
    IF key \in cls.methods THEN SerializeMethod(key) ELSE ZeroSerialize

HasSerializeFunc(cls, key) == key \in cls.methods

\* Mutant of ResolveField: a serialize_<key> method is looked at only when no
\* attribute is named after the key.
ResolveFieldAttrWins(cls, key) ==
    LET serialize_field == GetAttr(cls, key)
    IN IF serialize_field.kind = "none"
       THEN SerializeField(key, GetSerializeFunc(cls, key))
       ELSE serialize_field

\* The body of the loop of _init_serialize_fields for one query field.
ResolveField(cls, key) ==
    LET serialize_field == GetAttr(cls, key)
    IN IF serialize_field.kind = "none"
       THEN SerializeField(key, GetSerializeFunc(cls, key))
       ELSE IF HasSerializeFunc(cls, key)
            THEN [serialize_field EXCEPT !.func = SerializeMethod(key)]
            ELSE serialize_field

\* Mutant of KeyError: the key is not checked when the serializer is built.
KeyErrorNever(query_fields) == FALSE

\* if not key: raise ValueError('provide label for all non-Model fields')
KeyError(query_fields) == \E i \in DOMAIN query_fields : query_fields[i].key = NoKey

\* SQLAlchemySerializator._init_serialize_fields
init_serialize_fields(cls, query_fields) ==
    [i \in 1..Len(query_fields) |-> ResolveField(cls, query_fields[i].key)]

\* SQLAlchemySerializator._init_custom_serialize_fields: filter(isinstance ...,
\* self.__class__.__dict__.values()), a list under Python 2 and a one-pass
\* iterator under Python 3. The sequence is what is left to iterate.
init_custom_serialize_fields(cls) == cls.customs

NoSerializer ==
    [state |-> "none", cls |-> NoClass, extra_fields |-> <<>>, kw_model |-> FALSE,
     kw_tif |-> "None", kw_tihf |-> "None",
     model |-> FALSE,
     to_inspect_fields |-> TRUE, to_inspect_hybrid_fields |-> TRUE,
     query_fields |-> <<>>, serialize_fields |-> <<>>,
     custom_serialize_fields |-> <<>>]

\* The constructor raised: no object is returned. The record keeps the class
\* and the constructor's arguments.
Failed(error, cls, extra_fields, kw_model) ==
    [NoSerializer EXCEPT !.state = error, !.cls = cls,
                         !.extra_fields = extra_fields, !.kw_model = kw_model]

\* SQLAlchemySerializator.__init__ once self.model and the flags are set.
base_init(cls, extra_fields, kw_model, query_fields, model, tif, tihf) ==
    IF KeyError(query_fields)
    THEN Failed("ValueError", cls, extra_fields, kw_model)
    ELSE [state |-> "built", cls |-> cls,
          extra_fields |-> extra_fields, kw_model |-> kw_model,
          kw_tif |-> "None", kw_tihf |-> "None", model |-> model,
          to_inspect_fields |-> tif, to_inspect_hybrid_fields |-> tihf,
          query_fields |-> query_fields,
          serialize_fields |-> init_serialize_fields(cls, query_fields),
          custom_serialize_fields |-> init_custom_serialize_fields(cls)]

\* SQLAlchemySerializator(*extra_fields)
SQLAlchemySerializator(cls, extra_fields) ==
    base_init(cls, extra_fields, FALSE, init_query_fields(cls, extra_fields),
              FALSE, TRUE, TRUE)

\* instance flag if instance flag is not None else class flag
Flag(instance_flag, class_flag) ==
    IF instance_flag # "None" THEN instance_flag = "True" ELSE class_flag

\* self.model = self.__class__.model or kwargs.get('model', None)
\* if not self.model: raise ValueError("set model class attribute")
ModelMissing(cls, kw_model) == ~(cls.model \/ kw_model)

\* SQLAlchemyModelSerializator(*extra_fields, **kwargs). The record keeps the
\* keyword arguments the constructor was given.
SQLAlchemyModelSerializator(cls, extra_fields, kw_model, kw_tif, kw_tihf) ==
    IF ModelMissing(cls, kw_model)
    THEN Failed("ValueError", cls, extra_fields, kw_model)
    ELSE LET tif == Flag(kw_tif, cls.to_inspect_fields)
             tihf == Flag(kw_tihf, cls.to_inspect_hybrid_fields)
             built == base_init(cls, extra_fields, kw_model,
                                model_init_query_fields(cls, extra_fields, tif, tihf),
                                TRUE, tif, tihf)
         IN [built EXCEPT !.kw_tif = kw_tif, !.kw_tihf = kw_tihf]

\* ---- to_dict ----
\* The raw inputs: the tuple of a row (n items) or the row's model instance.
Tuple(row, n) == [kind |-> "tuple", row |-> row, items |-> [i \in 1..n |-> TupleItem(row, i)]]
Instance(row) == [kind |-> "instance", row |-> row, items |-> <<>>]

\* custom_args and custom_kwargs of a to_dict call: to_dict(raw),
\* to_dict(raw, 'x'), to_dict(raw, 'x', k='y').
CustomArgOptions ==
    {[args |-> <<>>, kwargs |-> EmptyDict],
     [args |-> << <<"x">> >>, kwargs |-> EmptyDict],
     [args |-> << <<"x">> >>, kwargs |-> [k \in {"k"} |-> <<"y">>]]}

RECURSIVE PlainLoopFromZero(_, _, _, _)
\* Mutant of PlainLoop: the tuple is read one position off (raw[i - 1]).
PlainLoopFromZero(fields, items, i, result) ==
    IF i > Len(fields) THEN result
    ELSE PlainLoopFromZero(fields, items, i + 1,
            DictPut(result, fields[i].key,
                    Apply(fields[i].func, items[IF i = 1 THEN 1 ELSE i - 1])))

RECURSIVE PlainLoop(_, _, _, _)
\* for i, field in enumerate(self.serialize_fields):
\*     result[field.key] = field.serialize(raw[i])
PlainLoop(fields, items, i, result) ==
    IF i > Len(fields) THEN result
    ELSE PlainLoop(fields, items, i + 1,
                   DictPut(result, fields[i].key, Apply(fields[i].func, items[i])))

RECURSIVE InstanceLoop(_, _, _, _)
\* for field in self.serialize_fields:
\*     result[field.key] = field.serialize(getattr(raw, field.key))
InstanceLoop(fields, row, i, result) ==
    IF i > Len(fields) THEN result
    ELSE InstanceLoop(fields, row, i + 1,
                      DictPut(result, fields[i].key,
                              Apply(fields[i].func, InstanceAttr(row, fields[i].key))))

CustomCall(field, instance, args, kwargs) ==
    [key |-> field.key, func |-> field.func, instance |-> instance,
     args |-> args, kwargs |-> kwargs]

RECURSIVE CustomLoop(_, _, _, _, _)
\* for field in self.custom_serialize_fields:
\*     result[field.key] = field.serialize(result, *custom_args, **custom_kwargs)
\* st is [result, calls]: the mapping and the calls of custom functions so far.
CustomLoop(customs, i, st, args, kwargs) ==
    IF i > Len(customs) THEN st
    ELSE CustomLoop(customs, i + 1,
            [result |-> DictPut(st.result, customs[i].key,
                                ApplyCustom(customs[i].func, st.result, args, kwargs)),
             calls |-> Append(st.calls, CustomCall(customs[i], st.result, args, kwargs))],
            args, kwargs)

\* What is left of self.custom_serialize_fields once a for loop has run over it:
\* the list of Python 2 is untouched, the filter iterator of Python 3 is used up.
AfterIteration(py, customs) == IF py = "py3" THEN <<>> ELSE customs

Raised(error, customs) ==
    [outcome |-> error, plain |-> EmptyDict, result |-> EmptyDict, calls |-> <<>>,
     left |-> customs]

\* Mutant of Returned: the custom fields are evaluated first, on the empty
\* mapping, and the plain fields placed after them.
ReturnedCustomsFirst(py, plain, customs, args, kwargs) ==
    LET done == CustomLoop(customs, 1, [result |-> EmptyDict, calls |-> <<>>], args, kwargs)
    IN [outcome |-> "returned", plain |-> plain,
        result |-> [k \in DOMAIN plain \cup DOMAIN done.result |->
                        IF k \in DOMAIN plain THEN plain[k] ELSE done.result[k]],
        calls |-> done.calls, left |-> AfterIteration(py, customs)]

\* to_dict returns: the custom fields are evaluated on the mapping of the plain
\* fields, each result stored under the custom field's key.
Returned(py, plain, customs, args, kwargs) ==
    LET done == CustomLoop(customs, 1, [result |-> plain, calls |-> <<>>], args, kwargs)
    IN [outcome |-> "returned", plain |-> plain, result |-> done.result,
        calls |-> done.calls, left |-> AfterIteration(py, customs)]

\* SQLAlchemySerializator.to_dict(raw, *custom_args, **custom_kwargs)
to_dict(py, s, raw, args, kwargs) ==
    IF Len(raw.items) < Len(s.serialize_fields)
    THEN Raised("IndexError", s.custom_serialize_fields)
    ELSE Returned(py, PlainLoop(s.serialize_fields, raw.items, 1, EmptyDict),
                  s.custom_serialize_fields, args, kwargs)

\* SQLAlchemyModelSerializator.to_dict(raw, *custom_args, **custom_kwargs)
model_to_dict(py, s, raw, args, kwargs) ==
    IF raw.kind = "tuple"
    THEN to_dict(py, s, raw, <<>>, EmptyDict)
    ELSE IF \E i \in DOMAIN s.serialize_fields : s.serialize_fields[i].key \notin ModelAttrs
         THEN Raised("AttributeError", s.custom_serialize_fields)
         ELSE Returned(py, InstanceLoop(s.serialize_fields, raw.row, 1, EmptyDict),
                       s.custom_serialize_fields, args, kwargs)

NoOut ==
    [called |-> FALSE, raw |-> Tuple("a", 0), args |-> <<>>, kwargs |-> EmptyDict,
     customs |-> <<>>, outcome |-> "none", plain |-> EmptyDict, result |-> EmptyDict,
     calls |-> <<>>]

Init ==
    /\ sessions = [s \in SessionIds |-> NoSession]
    /\ call = NoCall
    /\ interp \in {"py2", "py3"}
    /\ ser = NoSerializer
    /\ out = NoOut

\* A class is defined and one serializer of it constructed.
ConstructBase ==
    /\ ser.state = "none"
    /\ \E cls \in BaseClasses, extra_fields \in SeqsUpTo(FieldKeys, 1) :
        /\ Len(cls.fields) + Len(extra_fields) <= MaxFields
        /\ ser' = SQLAlchemySerializator(cls, extra_fields)
    /\ UNCHANGED <<interp, out>>

ConstructModel ==
    /\ ser.state = "none"
    /\ \E cls \in ModelClasses, extra_fields \in SeqsUpTo(FieldKeys, 1),
          kw_model \in BOOLEAN, kw_tif \in FlagValues, kw_tihf \in FlagValues :
        /\ Len(cls.fields) + Len(extra_fields) <= MaxFields
        /\ ser' = SQLAlchemyModelSerializator(cls, extra_fields, kw_model, kw_tif, kw_tihf)
    /\ UNCHANGED <<interp, out>>

\* The raw inputs given to a serializer: the rows' tuples, as long as its
\* fields, a tuple one item short, and for a model serializer the rows' model
\* instances too.
RawInputs(s) ==
    {Tuple(row, Len(s.serialize_fields)) : row \in Rows}
    \cup {Tuple("a", n) : n \in {Len(s.serialize_fields) - 1} \cap Nat}
    \cup (IF s.cls.kind = "model" THEN {Instance(row) : row \in Rows} ELSE {})

\* serializer.to_dict(raw, *custom_args, **custom_kwargs)
ToDict ==
    /\ ser.state = "built"
    /\ \E raw \in RawInputs(ser), custom \in CustomArgOptions :
        LET r == IF ser.cls.kind = "model"
                 THEN model_to_dict(interp, ser, raw, custom.args, custom.kwargs)
                 ELSE to_dict(interp, ser, raw, custom.args, custom.kwargs)
        IN /\ out' = [called |-> TRUE, raw |-> raw,
                      args |-> custom.args, kwargs |-> custom.kwargs,
                      customs |-> ser.custom_serialize_fields,
                      outcome |-> r.outcome, plain |-> r.plain, result |-> r.result,
                      calls |-> r.calls]
           /\ ser' = [ser EXCEPT !.custom_serialize_fields = r.left]
    /\ UNCHANGED interp

Next ==
    \/ ConstructBase /\ UNCHANGED sessVars
    \/ ConstructModel /\ UNCHANGED sessVars
    \/ ToDict /\ UNCHANGED sessVars

Spec == Init /\ [][Next]_vars

\* ---- the claims about the serializers ----
\* The resolved plain fields of the serializer and their keys.
F == ser.serialize_fields
PlainKeys == {F[i].key : i \in DOMAIN F}
\* The keys of the custom fields the serializer held when to_dict was called.
CustomKeys == {out.customs[j].key : j \in DOMAIN out.customs}

\* The raw value to_dict read for plain field i.
RawValue(i) ==
    IF out.raw.kind = "tuple" THEN out.raw.items[i]
    ELSE InstanceAttr(out.raw.row, F[i].key)

\* No later plain field has the key of plain field i.
LastWithKey(i) == \A j \in DOMAIN F : j > i => F[j].key # F[i].key

\* The last to_dict call returned a mapping.
ToDictReturned == out.called /\ out.outcome = "returned"

\* The last to_dict call returned, on a tuple as long as the plain fields.
TupleCall ==
    ToDictReturned /\ out.raw.kind = "tuple" /\ Len(out.raw.items) = Len(F)

(* C6, as claimed: to_dict on a tuple of length |F| returns a mapping whose keys
   are exactly the keys of the plain fields F and of the custom fields, and
   each plain key i maps to the transform of field i applied to raw[i]. *)
C6_KeysAndEveryPlainValue ==
    TupleCall =>
        /\ DOMAIN out.result = PlainKeys \cup CustomKeys
        /\ \A i \in DOMAIN F : out.result[F[i].key] = Apply(F[i].func, out.raw.items[i])

(* C6, amended: to_dict on a tuple of length |F| returns a mapping whose keys
   are exactly the keys of the plain fields F and of the custom fields; the key
   of plain field i maps to the transform of field i applied to raw[i] unless a
   later plain field or a custom field has the same key. *)
C6_KeysAndSurvivingPlainValues ==
    TupleCall =>
        /\ DOMAIN out.result = PlainKeys \cup CustomKeys
        /\ \A i \in DOMAIN F :
              (LastWithKey(i) /\ F[i].key \notin CustomKeys)
                  => out.result[F[i].key] = Apply(F[i].func, out.raw.items[i])

C6_Witness ==
    /\ TupleCall /\ Len(F) >= 2
    /\ CustomKeys \cap PlainKeys # {}
    /\ \E i \in DOMAIN F :
          /\ LastWithKey(i) /\ F[i].key \notin CustomKeys
          /\ F[i].func # ZeroSerialize

\* The value the custom function of call j returned.
CustomResultAt(j) ==
    ApplyCustom(out.calls[j].func, out.calls[j].instance,
                out.calls[j].args, out.calls[j].kwargs)

\* The custom calls before call j that stored under key k.
EarlierCustom(j, k) == {h \in 1..(j - 1) : out.calls[h].key = k}
Latest(S) == CHOOSE x \in S : \A y \in S : y <= x

\* Every custom field the serializer held is evaluated, in order, and the
\* result of the last custom field of a key is what the mapping holds there.
CustomsEvaluatedAndStored ==
    /\ Len(out.calls) = Len(out.customs)
    /\ \A j \in DOMAIN out.calls :
          /\ out.calls[j].key = out.customs[j].key
          /\ out.calls[j].func = out.customs[j].func
          /\ (\A h \in DOMAIN out.calls : h > j => out.calls[h].key # out.calls[j].key)
                => out.result[out.calls[j].key] = CustomResultAt(j)

(* C7, as claimed: on the tuple path and on the model-instance path, the
   mapping handed to each custom field's function holds every plain field key
   with its final transformed value, and the custom result is then stored
   under the custom key. *)
C7_CustomSeesFinalPlainValues ==
    ToDictReturned =>
        /\ CustomsEvaluatedAndStored
        /\ \A j \in DOMAIN out.calls, i \in DOMAIN F :
              /\ F[i].key \in DOMAIN out.calls[j].instance
              /\ LastWithKey(i) =>
                    out.calls[j].instance[F[i].key] = Apply(F[i].func, RawValue(i))

(* C7, amended: the mapping handed to each custom field's function holds every
   plain field key; the value there is the plain field's final transformed
   value, unless a custom field evaluated earlier in the same call has that key,
   and then it is that custom field's result. The custom result is then stored
   under the custom key. *)
C7_CustomSeesAllPlainKeys ==
    ToDictReturned =>
        /\ CustomsEvaluatedAndStored
        /\ \A j \in DOMAIN out.calls, i \in DOMAIN F :
              /\ F[i].key \in DOMAIN out.calls[j].instance
              /\ LastWithKey(i) =>
                    out.calls[j].instance[F[i].key] =
                        IF EarlierCustom(j, F[i].key) # {}
                        THEN CustomResultAt(Latest(EarlierCustom(j, F[i].key)))
                        ELSE Apply(F[i].func, RawValue(i))

C7_Witness ==
    /\ ToDictReturned /\ Len(out.calls) = 2 /\ Len(F) >= 2
    /\ out.calls[1].key \in PlainKeys
    /\ out.calls[2].key \notin PlainKeys

\* The key of the query field that plain field i was resolved from.
QueryKey(i) == ser.query_fields[i].key

(* C8, as claimed: for every resolved field with key k, if the serializer
   defines serialize_<k> the value the field stores under k is
   serialize_<k>(raw value); if it defines no serialize_<k> and has no
   attribute named k, the raw value is stored unchanged. *)
C8_OverrideOfResolvedKey ==
    ToDictReturned =>
        \A i \in DOMAIN F :
            LastWithKey(i) =>
                /\ HasSerializeFunc(ser.cls, F[i].key)
                      => out.plain[F[i].key] = Apply(SerializeMethod(F[i].key), RawValue(i))
                /\ (~HasSerializeFunc(ser.cls, F[i].key)
                      /\ GetAttr(ser.cls, F[i].key).kind = "none")
                      => out.plain[F[i].key] = RawValue(i)

(* C8, amended: for every query field with key k, if the serializer defines
   serialize_<k> the resolved field's transform is serialize_<k> and the value
   the field stores, under the resolved field's key, is serialize_<k>(raw
   value); if it defines no serialize_<k> and has no attribute named k, the
   resolved key is k and the raw value is stored unchanged. *)
C8_OverrideOfQueryKey ==
    ToDictReturned =>
        \A i \in DOMAIN F :
            /\ HasSerializeFunc(ser.cls, QueryKey(i)) =>
                  /\ F[i].func = SerializeMethod(QueryKey(i))
                  /\ LastWithKey(i) =>
                        out.plain[F[i].key] = Apply(SerializeMethod(QueryKey(i)), RawValue(i))
            /\ (~HasSerializeFunc(ser.cls, QueryKey(i))
                  /\ GetAttr(ser.cls, QueryKey(i)).kind = "none") =>
                  /\ F[i].key = QueryKey(i)
                  /\ LastWithKey(i) => out.plain[QueryKey(i)] = RawValue(i)

C8_Witness ==
    /\ ToDictReturned
    /\ \E i \in DOMAIN F :
          /\ HasSerializeFunc(ser.cls, QueryKey(i))
          /\ GetAttr(ser.cls, QueryKey(i)).kind # "none"
          /\ out.plain[F[i].key] = Apply(SerializeMethod(QueryKey(i)), RawValue(i))
    /\ \E i \in DOMAIN F :
          /\ ~HasSerializeFunc(ser.cls, QueryKey(i))
          /\ out.plain[QueryKey(i)] = RawValue(i)

\* The constructor was given a field without a key, or no model.
BadConfiguration ==
    \/ \E i \in DOMAIN ser.cls.fields : ser.cls.fields[i] = NoKey
    \/ \E i \in DOMAIN ser.extra_fields : ser.extra_fields[i] = NoKey
    \/ ser.cls.kind = "model" /\ ~ser.cls.model /\ ~ser.kw_model

(* C9: a declared or extra field with an empty key, or a model serializer with
   no model (class attribute or keyword), makes the constructor raise
   ValueError: no serializer is built and to_dict never runs on one. *)
C9_ConfigurationErrorsAtConstruction ==
    (ser.state # "none" /\ BadConfiguration) =>
        /\ ser.state = "ValueError"
        /\ ~out.called
        /\ ser.serialize_fields = <<>>

C9_Witness ==
    /\ ser.state = "ValueError"
    /\ ser.cls.kind = "base" /\ ser.cls.fields # <<>>
    /\ ser.extra_fields = <<NoKey>>
    /\ \A i \in DOMAIN ser.cls.fields : ser.cls.fields[i] # NoKey

(* C10: the custom_args and custom_kwargs given to to_dict reach every custom
   field function, for both serializer classes and for a tuple and a model
   instance alike: each custom function is called with the accumulated mapping
   followed by exactly those arguments. *)
C10_CustomArgsDispatched ==
    ToDictReturned =>
        /\ Len(out.calls) = Len(out.customs)
        /\ \A j \in DOMAIN out.calls :
              /\ out.calls[j].args = out.args
              /\ out.calls[j].kwargs = out.kwargs

\* A model serializer was built.
ModelBuilt == ser.state = "built" /\ ser.cls.kind = "model"

\* The fields given explicitly: the class's, then the constructor's.
ExplicitKeys == ser.cls.fields \o ser.extra_fields

\* The keys of the resolved query fields, in order.
ResolvedKeys == [i \in DOMAIN ser.query_fields |-> ser.query_fields[i].key]

\* A flag as the claim reads it: the constructor's value when one was passed,
\* else the class's.
PassedOrClass(passed, of_class) ==
    CASE passed = "True" -> TRUE
      [] passed = "False" -> FALSE
      [] OTHER -> of_class

(* C11: a model serializer resolves explicit fields before introspected
   columns before introspected hybrid properties. With a class-declared or
   extra field given, the resolved fields are exactly those, in declaration
   order, and nothing is introspected; with none given they are the model's
   columns (to_inspect_fields on) followed by its hybrid properties
   (to_inspect_hybrid_fields on), a flag passed to the constructor overriding
   the class's; with hybrid inspection off no hybrid-property key is in the
   output of to_dict. *)
C11_FieldResolutionPrecedence ==
    ModelBuilt =>
        LET inspect == PassedOrClass(ser.kw_tif, ser.cls.to_inspect_fields)
            hybrid == PassedOrClass(ser.kw_tihf, ser.cls.to_inspect_hybrid_fields)
        IN /\ ExplicitKeys # <<>> =>
                 /\ ResolvedKeys = ExplicitKeys
                 /\ \A i \in DOMAIN ser.query_fields :
                       ser.query_fields[i].origin \in {"class", "extra"}
           /\ ExplicitKeys = <<>> =>
                 /\ ResolvedKeys = (IF inspect THEN Columns ELSE <<>>)
                                       \o (IF hybrid THEN Hybrids ELSE <<>>)
                 /\ (ToDictReturned /\ ~hybrid) =>
                       \A h \in DOMAIN Hybrids : Hybrids[h] \notin DOMAIN out.result
           /\ Len(ser.serialize_fields) = Len(ser.query_fields)
           /\ \A i \in DOMAIN ser.serialize_fields :
                 ser.serialize_fields[i].key = ResolvedKeys[i]

C11_Witness ==
    /\ ModelBuilt /\ ExplicitKeys = <<>> /\ ToDictReturned
    /\ ser.cls.to_inspect_hybrid_fields /\ ser.kw_tihf = "False"
    /\ ~ser.cls.to_inspect_fields /\ ser.kw_tif = "True"
    /\ DOMAIN out.plain = {"gold", "level"}

C11_WitnessExplicit ==
    /\ ModelBuilt /\ ToDictReturned
    /\ ExplicitKeys = <<"level", "gold">>
    /\ ser.to_inspect_fields /\ ser.to_inspect_hybrid_fields
    /\ DOMAIN out.plain = {"gold", "level"}

\* The serializer as its constructor, called again with the same class and
\* arguments, would build it.
Fresh ==
    IF ser.cls.kind = "model"
    THEN SQLAlchemyModelSerializator(ser.cls, ser.extra_fields, ser.kw_model,
                                     ser.kw_tif, ser.kw_tihf)
    ELSE SQLAlchemySerializator(ser.cls, ser.extra_fields)

\* What the last to_dict call would have returned on the fresh serializer.
FreshToDict ==
    IF ser.cls.kind = "model"
    THEN model_to_dict(interp, Fresh, out.raw, out.args, out.kwargs)
    ELSE to_dict(interp, Fresh, out.raw, out.args, out.kwargs)

(* C12: one serializer serializes any sequence of rows. Whatever to_dict calls
   came before, a to_dict call finds the query fields, the plain fields and the
   custom fields of a freshly built serializer (the earlier calls left them
   unchanged) and returns the mapping the fresh serializer would return: the
   same plain keys, the same custom keys, the same values. *)
C12_ToDictAsOnFreshSerializer ==
    out.called =>
        /\ ser.query_fields = Fresh.query_fields
        /\ ser.serialize_fields = Fresh.serialize_fields
        /\ out.customs = Fresh.custom_serialize_fields
        /\ out.outcome = FreshToDict.outcome
        /\ out.result = FreshToDict.result

\* The same statement for a serializer run by Python 2, where filter() builds
\* a list.
C12_UnderPython2 == interp = "py2" => C12_ToDictAsOnFreshSerializer

\* A second call under Python 2 on a serializer with custom fields.
C12_UnderPython2Reached ==
    /\ interp = "py2" /\ ToDictReturned
    /\ out.raw.row = "b" /\ Len(out.calls) = 2

====
